---- MODULE Spec2Model ----
(***************************************************************************)
(* A model of connect-mongoose-session-store (src/lib/index.js): the       *)
(* SessionStore adapter over a "live sessions" collection and a "session   *)
(* history" collection.  Every storage call (findOne, find, save, remove,  *)
(* count, drop, the sweep's query) is one step: the database applies it    *)
(* and the store's completion callback runs, atomically.  A storage call   *)
(* may fail.  Public methods are called by an environment, any number of   *)
(* them in flight at once (single-threaded, cooperative: steps interleave, *)
(* they do not overlap).                                                   *)
(***************************************************************************)
EXTENDS Integers, FiniteSets, Bags, TLC

(* ------------------------------ bounds -------------------------------- *)

\* Public method calls the environment makes in one behaviour.
MaxCalls == 2
\* The clock runs from 0 (construction of the store) to MaxTime.
MaxTime == 2
\* Calls of public methods in flight at once (the sweeps they start come on top).
MaxInFlight == 2
\* Session ids are 1..MaxSid.
MaxSid == 2

Sids == 1..MaxSid

(* --------------------------- configuration ---------------------------- *)

\* options.maxAge (index.js:164), in clock ticks.
maxAge == 1

\* The schemas' `default: new Date()` is evaluated once, when the schema is
\* created at construction: every document created without the field gets
\* the construction time, which is where the clock starts.
schemaDefaultDate == 0

(* ------------------------------ payloads ------------------------------ *)

\* A JavaScript session value.  str: it is a JSON string, not an object
\* (a property read on it gives undefined).  user / puser: session.user and
\* session.passport.user ("absent": no such field, "null": JavaScript null).
\* force: session.forceUpdate.  cform / oma: session.cookie ("absent": no
\* cookie sub-object; "Cookie": an object with a toJSON function; "plain":
\* its serializable form) and cookie.originalMaxAge.  data: the application's
\* own fields.  fn: the value carries function-valued fields.  sidf:
\* session.sid (0: no such field).
EmptyObject ==
  [str |-> FALSE, user |-> "absent", puser |-> "absent", force |-> "absent",
   cform |-> "absent", oma |-> 0, data |-> 0, fn |-> FALSE, sidf |-> 0]

\* No value at all (undefined).
NoPayload == [EmptyObject EXCEPT !.data = -1]

\* A session object as the middleware creates it: methods, a Cookie object,
\* no sid field.
Session(user, puser, force, cform, oma, data) ==
  [str |-> FALSE, user |-> user, puser |-> puser, force |-> force,
   cform |-> cform, oma |-> oma, data |-> data, fn |-> TRUE, sidf |-> 0]

\* The payloads the middleware hands to set: authenticated directly, through
\* passport, or not at all; forceUpdate unset, false or true; a cookie whose
\* originalMaxAge is at or below max-age, or no cookie at all.
Payloads ==
  { Session("u1", "absent", "absent", "Cookie", maxAge, 1),
    Session("u1", "absent", "true", "Cookie", maxAge, 2),
    Session("absent", "u2", "false", "Cookie", maxAge, 2),
    Session("absent", "absent", "absent", "Cookie", maxAge, 1),
    Session("u1", "absent", "absent", "Cookie", maxAge - 1, 1),
    Session("u1", "absent", "absent", "absent", 0, 1) }

\* JavaScript truthiness of a user field.
Truthy(u) == u \notin {"absent", "null"}

\* _getSessionUser(session): session.user, else session.passport.user, else
\* null.  x is any value with the fields user and puser.
getSessionUser(x) ==
  IF Truthy(x.user) THEN x.user
  ELSE IF Truthy(x.puser) THEN x.puser
  ELSE "null"

\* _hasValidUserData(session).  Defined by the source and called nowhere.
hasValidUserData(x) == getSessionUser(x) # "null"

\* _removeFunctionsFromObject(obj): a copy without the function-valued
\* fields; the empty object when obj is not an object.
removeFunctionsFromObject(obj) ==
  IF obj.str \/ obj = NoPayload THEN EmptyObject ELSE [obj EXCEPT !.fn = FALSE]

\* Cookie.toJSON(): the cookie's serializable form, originalMaxAge kept.
toJSON(cform) == IF cform = "Cookie" THEN "plain" ELSE cform

\* _pasreCookies(sessionToStore).
pasreCookies(x) == [x EXCEPT !.cform = toJSON(x.cform)]

\* this._serialize_session / this._unserialize_session, as set up by
\* initiateSessionSerialization: JSON.stringify / JSON.parse when
\* options.stringify, the identity otherwise.
serialize_session(stringify, x) == IF stringify THEN [x EXCEPT !.str = TRUE] ELSE x
unserialize_session(stringify, x) == IF stringify THEN [x EXCEPT !.str = FALSE] ELSE x

(* ------------------------------- state -------------------------------- *)

VARIABLES
  stringify,  \* options.stringify, fixed at construction
  now,        \* the clock (new Date())
  live,       \* the live collection: a set of documents
  history,    \* the history collection: a bag of history records
  nextId,     \* the next _id the live collection hands out
  calls,      \* public method calls made so far
  ops,        \* the method calls and sweeps in flight
  ev          \* what the last step delivered (a callback), or NoEv

vars == <<stringify, now, live, history, nextId, calls, ops, ev>>

\* A live document (schema: index.js:26-43).
Doc(id, sid, session, lastAccessTime, expires) ==
  [id |-> id, sid |-> sid, session |-> session, dateLoggedIn |-> schemaDefaultDate,
   lastAccessTime |-> lastAccessTime, expires |-> expires]

NoDoc == Doc(0, 0, NoPayload, 0, 0)

\* The Mongoose document itself has neither a user nor a passport path.
DocView(d) == [user |-> "absent", puser |-> "absent"]

\* HistoryId keeping the identity of the live record for its clone.
HistoryIdKept(id) == id

\* The _id a clone is saved with (index.js:313-315): a truthy _id is set to
\* null, and the database gives the record an identity of its own; 0 stands
\* for that, the live collection's identities being 1, 2, ...
HistoryId(id) == IF id # 0 THEN 0 ELSE id

\* HistoryOf losing the payload of the record it clones.
HistoryOfWithoutPayload(d) ==
  [id |-> HistoryId(d.id), sid |-> d.sid, session |-> NoPayload,
   dateLoggedIn |-> d.dateLoggedIn, dateLoggedOut |-> schemaDefaultDate]

\* A history record (schema: index.js:49-61): new SessionHistory(doc.toObject())
\* keeps the paths of the history schema; _id is reset, so the database
\* assigns a new one.
HistoryOf(d) ==
  [id |-> HistoryId(d.id), sid |-> d.sid, session |-> d.session,
   dateLoggedIn |-> d.dateLoggedIn, dateLoggedOut |-> schemaDefaultDate]

HistoryCount(sid) ==
  LET S == {h \in BagToSet(history) : h.sid = sid}
      RECURSIVE Sum(_)
      Sum(T) == IF T = {} THEN 0
                ELSE LET h == CHOOSE x \in T : TRUE
                     IN CopiesIn(h, history) + Sum(T \ {h})
  IN Sum(S)

LiveOf(sid) == {d \in live : d.sid = sid}

\* A call in flight.  api: the public method the environment called; kind: the
\* method whose storage call is outstanding (a get of an expired record goes
\* on as a destroy); pc: the outstanding storage call.
\* payload, t0, seen, tSeen, h0, l0, found, nfound, saved, failed only record what the
\* call was given and saw, for the properties; no step reads them.
NewOp(id, api, kind, pc, sid) ==
  [id |-> id, api |-> api, kind |-> kind, pc |-> pc, sid |-> sid,
   t0 |-> now, payload |-> NoPayload, s |-> NoPayload, expires |-> 0, doc |-> 0,
   overwrite |-> FALSE, lastAccessTime |-> 0, cutoff |-> 0,
   pending |-> {}, arr |-> {}, found |-> {}, nfound |-> 0, saved |-> 0,
   seen |-> NoDoc, tSeen |-> 0,
   h0 |-> HistoryCount(sid), l0 |-> LiveOf(sid) # {}, failed |-> FALSE]

NoEv == [called |-> FALSE, done |-> FALSE]

\* The step completed call o.  called: the caller's callback ran, with err
\* (an error argument) and res (the payload, NoPayload when absent) or n (the
\* count); fail: the storage call of this step failed.
Event(o, called, err, res, n, fail) ==
  [done |-> TRUE, op |-> o, called |-> called, err |-> err, res |-> res,
   n |-> n, fail |-> fail]

\* The caller's callback `next`: getAndReset passes get a callback of its own
\* and set none at all.
HasNext(o) == o.api # "getAndReset"

Init ==
  /\ stringify \in BOOLEAN
  /\ now = 0
  /\ live = {}
  /\ history = EmptyBag
  /\ nextId = 1
  /\ calls = 0
  /\ ops = {}
  /\ ev = NoEv

(* -------------------------------- set --------------------------------- *)

\* SetSync without the max-age validation.
SetSyncNoMaxAgeCheck(session) ==
  IF session.cform = "absent" THEN "exception" ELSE "findOne"

\* SetSync reading the cookie's max-age without throwing when there is no
\* cookie (max-age > undefined is false).
SetSyncNoThrow(session) ==
  IF session.cform # "absent" /\ maxAge > session.oma THEN "config" ELSE "findOne"

\* The synchronous part of set (index.js:360-370): "exception" when reading
\* session.cookie.originalMaxAge throws (no cookie), "config" when max-age is
\* larger than the cookie's original max-age, "findOne" when the lookup is
\* issued.
SetSync(session) ==
  IF session.cform = "absent" THEN "exception"
  ELSE IF maxAge > session.oma THEN "config"
  ELSE "findOne"

\* s.session (index.js:362-364).
SessionToStore(session) ==
  serialize_session(stringify, pasreCookies(removeFunctionsFromObject(session)))

\* set(sid, session, next) up to its return, for a call o that takes the place
\* of `old` among the calls in flight.
\* config: next(error), return.  exception: caught, next && next(err).
SetStart(old, o, session) ==
  LET out == SetSync(session)
      o1  == [o EXCEPT !.t0 = now, !.payload = session, !.s = SessionToStore(session),
                       !.expires = now + maxAge, !.pc = out]
  IN IF out = "findOne"
       THEN /\ ops' = (ops \ {old}) \cup {o1}
            /\ ev' = NoEv
       ELSE /\ ops' = ops \ {old}
            /\ ev' = Event(o1, HasNext(o), HasNext(o), NoPayload, 0, FALSE)

\* The environment may make another call.
CanCall ==
  /\ calls < MaxCalls
  /\ Cardinality({o \in ops : o.kind # "sweep"}) < MaxInFlight

CallSet(sid, session) ==
  /\ CanCall
  /\ calls' = calls + 1
  /\ LET o == NewOp(calls + 1, "set", "set", "call", sid)
     IN SetStart(o, o, session)
  /\ UNCHANGED <<stringify, now, live, history, nextId>>

\* The sweep set schedules with process.nextTick (index.js:393-395):
\* clearExpiredSessions issues its query for expires < new Date().
SweepOf(o) ==
  [NewOp(0 - o.id, "sweep", "sweep", "query", 0) EXCEPT !.cutoff = now]

\* ForceUpdate taking every payload for a forced one.
ForceUpdateAlways(s) == ~s.str

\* s.session.forceUpdate === true (index.js:376).
ForceUpdate(s) == ~s.str /\ s.force = "true"

\* The callback of set's Session.findOne (index.js:371-396).
SetFindOne(o) ==
  /\ o.kind = "set" /\ o.pc = "findOne"
  /\ \E fail \in BOOLEAN :
       IF fail
         THEN /\ ops' = (ops \ {o}) \cup {SweepOf(o)}
              /\ ev' = Event([o EXCEPT !.failed = TRUE], HasNext(o), TRUE, NoPayload, 0, TRUE)
         ELSE /\ ev' = NoEv
              /\ IF LiveOf(o.sid) # {}
                   THEN \E storedSession \in LiveOf(o.sid) :
                          ops' = (ops \ {o}) \cup
                            { [o EXCEPT !.pc = "saveStored", !.doc = storedSession.id,
                                 !.overwrite = ForceUpdate(o.s),
                                 !.s = IF ForceUpdate(o.s)
                                         THEN [o.s EXCEPT !.force = "absent"] ELSE o.s,
                                 !.lastAccessTime = now],
                              SweepOf(o) }
                   ELSE ops' = (ops \ {o}) \cup {[o EXCEPT !.pc = "saveNew"], SweepOf(o)}
  /\ UNCHANGED <<stringify, now, live, history, nextId, calls>>

\* SaveStored writing the payload whether or not it was set on the document.
SaveStoredOverwriting(o) ==
  { IF d.id = o.doc
      THEN [d EXCEPT !.session = o.s, !.lastAccessTime = o.lastAccessTime,
                     !.expires = o.expires]
      ELSE d : d \in live }

\* storedSession.save(): the modified paths of the document, by _id.  When
\* the document has been removed since the lookup the update matches nothing.
SaveStored(o) ==
  { IF d.id = o.doc
      THEN [d EXCEPT !.session = IF o.overwrite THEN o.s ELSE d.session,
                     !.lastAccessTime = o.lastAccessTime,
                     !.expires = o.expires]
      ELSE d : d \in live }

\* SaveNew computing expires when the save completes.
SaveNewExpiresAtSave(o) ==
  live \cup {Doc(nextId, o.sid, o.s, schemaDefaultDate, now + maxAge)}

\* new Session(s).save(): s is {sid, session, expires}; the other paths take
\* the schema's defaults.
SaveNew(o) ==
  live \cup {Doc(nextId, o.sid, o.s, schemaDefaultDate, o.expires)}

\* The callback of set's save (index.js:383-391).
SetSave(o) ==
  /\ o.kind = "set" /\ o.pc \in {"saveStored", "saveNew"}
  /\ ops' = ops \ {o}
  /\ \E fail \in BOOLEAN :
       /\ ev' = Event([o EXCEPT !.failed = fail], HasNext(o), fail, NoPayload, 0, fail)
       /\ IF fail
            THEN UNCHANGED <<live, nextId>>
            ELSE IF o.pc = "saveStored"
                   THEN live' = SaveStored(o) /\ UNCHANGED nextId
                   ELSE live' = SaveNew(o) /\ nextId' = nextId + 1
  /\ UNCHANGED <<stringify, now, history, calls>>

(* -------------------------------- get --------------------------------- *)

CallGet(sid) ==
  /\ CanCall
  /\ calls' = calls + 1
  /\ ops' = ops \cup {NewOp(calls + 1, "get", "get", "findOne", sid)}
  /\ ev' = NoEv
  /\ UNCHANGED <<stringify, now, live, history, nextId>>

\* getAndReset(sid, next): get with a callback of its own (index.js:269-276).
CallGetAndReset(sid) ==
  /\ CanCall
  /\ calls' = calls + 1
  /\ ops' = ops \cup {NewOp(calls + 1, "getAndReset", "get", "findOne", sid)}
  /\ ev' = NoEv
  /\ UNCHANGED <<stringify, now, live, history, nextId>>

\* NotExpired taking every record for expired.
NotExpiredNever(sessionData, t) == FALSE

\* NotExpired taking a record for valid at the very time it expires.
NotExpiredOffByOne(sessionData, t) == t <= sessionData.expires

\* new Date() < sessionData.expires (index.js:230); every document set writes
\* has its expires.
NotExpired(sessionData, t) == t < sessionData.expires

\* What get hands to its callback for a valid record (index.js:231-233): the
\* user that _getSessionUser finds on the document, the session id, the
\* payload deserialized.
GetResult(sessionData, sid) ==
  unserialize_session(stringify,
    [sessionData.session EXCEPT !.user = getSessionUser(DocView(sessionData)),
                                !.sidf = sid])

\* GetDeliver without getAndReset's set: the call is over with get.
GetDeliverNoReset(old, o, err, res, fail) ==
  /\ ops' = ops \ {old}
  /\ ev' = Event(o, HasNext(o), err, res, 0, fail)

\* get's callback delivers (err, res) for call o: to the caller's next, or, in
\* getAndReset, to the callback that sets the payload again, with no callback.
GetDeliver(old, o, err, res, fail) ==
  IF o.api = "getAndReset" /\ res # NoPayload
    THEN SetStart(old, [o EXCEPT !.kind = "set", !.pc = "call"], res)
    ELSE /\ ops' = ops \ {old}
         /\ ev' = Event(o, HasNext(o), err, res, 0, fail)

\* The callback of get's lookup (index.js:227-244, 255-260).  The lookup's
\* error is not looked at.  Writing a property of a string throws in strict
\* mode; the exception is caught and handed to next.
GetFindOne(o) ==
  /\ o.kind = "get" /\ o.pc = "findOne"
  /\ \E fail \in BOOLEAN :
       IF fail \/ LiveOf(o.sid) = {}
         THEN GetDeliver(o, [o EXCEPT !.failed = fail], FALSE, NoPayload, fail)
         ELSE \E sessionData \in LiveOf(o.sid) :
                LET o1 == [o EXCEPT !.seen = sessionData, !.tSeen = now]
                IN IF NotExpired(sessionData, now)
                     THEN IF sessionData.session.str
                            THEN GetDeliver(o, [o1 EXCEPT !.pc = "exception"], TRUE, NoPayload, FALSE)
                            ELSE GetDeliver(o, o1, FALSE, GetResult(sessionData, o.sid), FALSE)
                     ELSE /\ ops' = (ops \ {o}) \cup {[o1 EXCEPT !.kind = "destroy", !.pc = "find"]}
                          /\ ev' = NoEv
  /\ UNCHANGED <<stringify, now, live, history, nextId, calls>>

(* ------------------------ destroy, clear, length ---------------------- *)

CallDestroy(sid) ==
  /\ CanCall
  /\ calls' = calls + 1
  /\ ops' = ops \cup {NewOp(calls + 1, "destroy", "destroy", "find", sid)}
  /\ ev' = NoEv
  /\ UNCHANGED <<stringify, now, live, history, nextId>>

CallClear ==
  /\ CanCall
  /\ calls' = calls + 1
  /\ ops' = ops \cup {NewOp(calls + 1, "clear", "clear", "find", 0)}
  /\ ev' = NoEv
  /\ UNCHANGED <<stringify, now, live, history, nextId>>

CallLength ==
  /\ CanCall
  /\ calls' = calls + 1
  /\ ops' = ops \cup {NewOp(calls + 1, "length", "length", "count", 0)}
  /\ ev' = NoEv
  /\ UNCHANGED <<stringify, now, live, history, nextId>>

\* AfterHistory giving the operation up when a clone's save has failed.
AfterHistoryAbortingOnFailure(o) ==
  IF o.saved < o.nfound
    THEN [o EXCEPT !.pc = "aborted"]
    ELSE CASE o.kind = "destroy" -> [o EXCEPT !.pc = "remove"]
           [] o.kind = "clear"   -> [o EXCEPT !.pc = "drop"]
           [] OTHER              -> [o EXCEPT !.pc = "removeEach"]

\* What runs when addToHistory / addSessionHistoryData calls back: destroy's
\* Session.remove, clear's Session.drop, the sweep's remove of each document
\* it found.  A sweep that found nothing is over.
AfterHistory(o) ==
  CASE o.kind = "destroy" -> [o EXCEPT !.pc = "remove"]
    [] o.kind = "clear"   -> [o EXCEPT !.pc = "drop"]
    [] OTHER              -> [o EXCEPT !.pc = "removeEach"]

\* AddSessionHistoryData calling back without waiting for the saves it
\* started.
AddSessionHistoryDataNoJoin(o, sessionDataArr) ==
  [AfterHistory(o) EXCEPT !.pending = sessionDataArr,
                          !.arr = {d.id : d \in sessionDataArr},
                          !.found = sessionDataArr,
                          !.nfound = Cardinality(sessionDataArr)]

\* AddSessionHistoryData never calling back when it is given no document.
AddSessionHistoryDataEmptyStalls(o, sessionDataArr) ==
  IF sessionDataArr = {}
    THEN [o EXCEPT !.pc = "stalled"]
    ELSE [o EXCEPT !.pc = "archive", !.pending = sessionDataArr,
                   !.arr = {d.id : d \in sessionDataArr},
                   !.found = sessionDataArr,
                   !.nfound = Cardinality(sessionDataArr)]

\* addSessionHistoryData(sessionDataArr, next), up to async.parallel
\* (index.js:307-325): one save per document, of its state now; with no
\* document the join calls back at once.
AddSessionHistoryData(o, sessionDataArr) ==
  IF sessionDataArr = {}
    THEN AfterHistory(o)
    ELSE [o EXCEPT !.pc = "archive", !.pending = sessionDataArr,
                   !.arr = {d.id : d \in sessionDataArr},
                   !.found = sessionDataArr,
                   !.nfound = Cardinality(sessionDataArr)]

\* The documents Session.find(criteria) matches: {sid: sid} for destroy, {} for
\* clear.
Matching(o) == IF o.kind = "destroy" THEN LiveOf(o.sid) ELSE live

\* The callback of addToHistory's Session.find (index.js:338-348).
AddToHistoryFind(o) ==
  /\ o.kind \in {"destroy", "clear"} /\ o.pc = "find"
  /\ \E fail \in BOOLEAN :
       ops' = (ops \ {o}) \cup
                { IF fail THEN AfterHistory([o EXCEPT !.failed = TRUE])
                  ELSE AddSessionHistoryData(o, Matching(o)) }
  /\ ev' = NoEv
  /\ UNCHANGED <<stringify, now, live, history, nextId, calls>>

\* HistorySaved losing the clone.
HistorySavedNowhere(d) == history

\* The history collection after sessionHistory.save() of a clone of d.
HistorySaved(d) == history (+) SetToBag({HistoryOf(d)})

\* The callback of one sessionHistory.save (index.js:316-322): an error is
\* logged, callback(null) either way; the last one to call back is the join
\* (index.js:325-330).
HistorySave(o) ==
  /\ o.pc = "archive"
  /\ \E d \in o.pending, fail \in BOOLEAN :
       /\ history' = IF fail THEN history ELSE HistorySaved(d)
       /\ LET o1 == [o EXCEPT !.pending = o.pending \ {d},
                              !.saved = IF fail THEN o.saved ELSE o.saved + 1]
          IN ops' = (ops \ {o}) \cup {IF o1.pending = {} THEN AfterHistory(o1) ELSE o1}
  /\ ev' = NoEv
  /\ UNCHANGED <<stringify, now, live, nextId, calls>>

\* The callback of destroy's Session.remove({sid: sid}) (index.js:412-414).
DestroyRemove(o) ==
  /\ o.kind = "destroy" /\ o.pc = "remove"
  /\ ops' = ops \ {o}
  /\ \E fail \in BOOLEAN :
       /\ live' = IF fail THEN live ELSE live \ LiveOf(o.sid)
       /\ ev' = Event([o EXCEPT !.failed = o.failed \/ fail], HasNext(o), fail, NoPayload, 0, fail)
  /\ UNCHANGED <<stringify, now, history, nextId, calls>>

\* ClearNextErr handing on the error of the history step or of the drop.
ClearNextErrPropagated(o, fail) == o.failed \/ fail

\* The error argument clear hands to next: the callback of Session.drop takes
\* no argument and calls next with none (index.js:445-447); the error of the
\* history step was logged (index.js:442-444).
ClearNextErr(o, fail) == FALSE

\* The callback of clear's Session.drop, taken to drop the live collection's
\* documents as the call says.
ClearDrop(o) ==
  /\ o.kind = "clear" /\ o.pc = "drop"
  /\ ops' = ops \ {o}
  /\ \E fail \in BOOLEAN :
       /\ live' = IF fail THEN live ELSE {}
       /\ ev' = Event([o EXCEPT !.failed = o.failed \/ fail], HasNext(o),
                       ClearNextErr(o, fail), NoPayload, 0, fail)
  /\ UNCHANGED <<stringify, now, history, nextId, calls>>

\* The callback of length's count (index.js:424-432), taken to count the live
\* collection's documents.
LengthCount(o) ==
  /\ o.kind = "length" /\ o.pc = "count"
  /\ ops' = ops \ {o}
  /\ \E fail \in BOOLEAN :
       ev' = Event([o EXCEPT !.failed = fail], HasNext(o), fail, NoPayload,
                   IF fail THEN 0 ELSE Cardinality(live), fail)
  /\ UNCHANGED <<stringify, now, live, history, nextId, calls>>

(* ------------------------------- sweep -------------------------------- *)

\* ExpiredBefore matching also the records that expire at the cutoff.
ExpiredBeforeOrAt(cutoff) == {d \in live : d.expires <= cutoff}

\* The documents Session.where('expires').lt(cutoff) matches.
ExpiredBefore(cutoff) == {d \in live : d.expires < cutoff}

\* The callback of clearExpiredSessions' query (index.js:285-298): an error is
\* logged and the sweep is over.
SweepQuery(o) ==
  /\ o.kind = "sweep" /\ o.pc = "query"
  /\ \E fail \in BOOLEAN :
       LET o1 == IF fail THEN [o EXCEPT !.failed = TRUE, !.pc = "removeEach"]
                 ELSE AddSessionHistoryData(o, ExpiredBefore(o.cutoff))
       IN IF o1.pc = "removeEach"
            THEN /\ ops' = ops \ {o}
                 /\ ev' = Event(o1, FALSE, FALSE, NoPayload, 0, fail)
            ELSE /\ ops' = (ops \ {o}) \cup {o1}
                 /\ ev' = NoEv
  /\ UNCHANGED <<stringify, now, live, history, nextId, calls>>

\* One session.remove() of the sweep (index.js:293-295): by _id, with no
\* callback.
SweepRemove(o) ==
  /\ o.kind = "sweep" /\ o.pc = "removeEach"
  /\ \E id \in o.arr, fail \in BOOLEAN :
       /\ live' = IF fail THEN live ELSE {d \in live : d.id # id}
       /\ LET o1 == [o EXCEPT !.arr = o.arr \ {id}, !.failed = o.failed \/ fail]
          IN IF o1.arr = {}
               THEN /\ ops' = ops \ {o}
                    /\ ev' = Event(o1, FALSE, FALSE, NoPayload, 0, fail)
               ELSE /\ ops' = (ops \ {o}) \cup {o1}
                    /\ ev' = NoEv
  /\ UNCHANGED <<stringify, now, history, nextId, calls>>

(* ------------------------------- clock -------------------------------- *)

Tick ==
  /\ now < MaxTime
  /\ now' = now + 1
  /\ ev' = NoEv
  /\ UNCHANGED <<stringify, live, history, nextId, calls, ops>>

Next ==
  \/ \E sid \in Sids, session \in Payloads : CallSet(sid, session)
  \/ \E sid \in Sids : CallGet(sid)
  \/ \E sid \in Sids : CallGetAndReset(sid)
  \/ \E sid \in Sids : CallDestroy(sid)
  \/ CallClear
  \/ CallLength
  \/ \E o \in ops : SetFindOne(o)
  \/ \E o \in ops : SetSave(o)
  \/ \E o \in ops : GetFindOne(o)
  \/ \E o \in ops : AddToHistoryFind(o)
  \/ \E o \in ops : HistorySave(o)
  \/ \E o \in ops : DestroyRemove(o)
  \/ \E o \in ops : ClearDrop(o)
  \/ \E o \in ops : LengthCount(o)
  \/ \E o \in ops : SweepQuery(o)
  \/ \E o \in ops : SweepRemove(o)
  \/ Tick

Spec == Init /\ [][Next]_vars

\* The identities of the calls (1..MaxCalls) and of the sweeps they start.
OpIds == ((0 - MaxCalls)..MaxCalls) \ {0}

\* The storage call that the call or sweep with this identity waits for
\* completes, with a result or an error, and its callback runs.
StorageCallCompletes(id) ==
  \E o \in ops :
    /\ o.id = id
    /\ \/ SetFindOne(o) \/ SetSave(o) \/ GetFindOne(o)
       \/ AddToHistoryFind(o) \/ HistorySave(o)
       \/ DestroyRemove(o) \/ ClearDrop(o) \/ LengthCount(o)
       \/ SweepQuery(o) \/ SweepRemove(o)

\* The payloads that take set down each of its paths: one that is stored, one
\* whose cookie fails the max-age validation, one with no cookie.
FairPayloads ==
  { Session("u1", "absent", "absent", "Cookie", maxAge, 1),
    Session("u1", "absent", "absent", "Cookie", maxAge - 1, 1),
    Session("u1", "absent", "absent", "absent", 0, 1) }

\* The steps of Next, set being called with these payloads.
FairNext ==
  \/ \E sid \in Sids, session \in FairPayloads : CallSet(sid, session)
  \/ \E sid \in Sids : CallGet(sid)
  \/ \E sid \in Sids : CallGetAndReset(sid)
  \/ \E sid \in Sids : CallDestroy(sid)
  \/ CallClear
  \/ CallLength
  \/ \E o \in ops : SetFindOne(o)
  \/ \E o \in ops : SetSave(o)
  \/ \E o \in ops : GetFindOne(o)
  \/ \E o \in ops : AddToHistoryFind(o)
  \/ \E o \in ops : HistorySave(o)
  \/ \E o \in ops : DestroyRemove(o)
  \/ \E o \in ops : ClearDrop(o)
  \/ \E o \in ops : LengthCount(o)
  \/ \E o \in ops : SweepQuery(o)
  \/ \E o \in ops : SweepRemove(o)
  \/ Tick

\* The store with a storage client that completes every call it is given.
FairSpec ==
  Init /\ [][FairNext]_vars /\ \A id \in OpIds : WF_vars(StorageCallCompletes(id))

(* ----------------------------- properties ----------------------------- *)

\* The step just taken completed a call of kind k (ev is the state's record of
\* the step that led to it).
Completed(k) == ev.done /\ ev.op.kind = k

\* C1: a set whose payload has neither a direct user field nor a nested
\* passport.user field creates no live record, changes none, and reports
\* success.  (Stated on the step that completes the set; a failed storage
\* call aside, the callback runs without an error.)
C1_UnauthenticatedSetWritesNothing ==
  [][ (ev'.done /\ ev'.op.api = "set" /\ ~hasValidUserData(ev'.op.payload)
        /\ ev'.op.payload.cform # "absent" /\ maxAge <= ev'.op.payload.oma)
      => (live' = live /\ (~ev'.fail => ev'.called /\ ~ev'.err)) ]_vars

\* C2: a get that returns a payload returns the payload stored for the id (the
\* payload set was given, without its functions and with its cookie in
\* serializable form) with sid set to the id and user set to the user
\* extracted from the stored payload: its direct user, else its passport.user.
C2_GetReturnsPayloadWithExtractedUser ==
  (ev.done /\ ev.op.api = "get" /\ ev.called /\ ~ev.err /\ ev.res # NoPayload)
  => ev.res = [ev.op.seen.session EXCEPT
                 !.sidf = ev.op.sid,
                 !.user = getSessionUser(ev.op.seen.session)]

\* C3: a get whose lookup finds a record that has expired (the time of the
\* lookup is at or past its expires) calls back with no payload, with an error
\* only if the removal failed, and when it calls back without one no live
\* record with that id is left.
C3_ExpiredGetAbsentAndRemoved ==
  (ev.done /\ ev.op.api = "get" /\ ev.op.seen # NoDoc /\ ev.op.tSeen >= ev.op.seen.expires)
  => /\ ev.called
     /\ ev.res = NoPayload
     /\ ev.err = ev.fail
     /\ ~ev.err => LiveOf(ev.op.sid) = {}

C3_Witness ==
  /\ ev.done /\ ev.op.api = "get" /\ ev.op.seen # NoDoc
  /\ ev.op.tSeen >= ev.op.seen.expires
  /\ ev.called /\ ~ev.err /\ ev.res = NoPayload /\ LiveOf(ev.op.sid) = {}

\* C4, as claimed: when destroy is called on an id that has a live record,
\* then when its callback runs (without an error) no live record has that id
\* and the history holds at least one more record with that id than before
\* the call.
C4_DestroyAlwaysArchives ==
  (ev.done /\ ev.op.api = "destroy" /\ ev.op.l0 /\ ev.called /\ ~ev.err)
  => /\ LiveOf(ev.op.sid) = {}
     /\ HistoryCount(ev.op.sid) >= ev.op.h0 + 1

\* C4, amended: when destroy is called on an id that has a live record and its
\* callback runs without an error, no live record has that id; and if its
\* archival lookup found records and every clone of them was saved, the
\* history holds at least that many more records with that id than before the
\* call.
C4_DestroyRemovesAndArchivesWhatItSaved ==
  (ev.done /\ ev.op.api = "destroy" /\ ev.op.l0 /\ ev.called /\ ~ev.err)
  => /\ LiveOf(ev.op.sid) = {}
     /\ (ev.op.nfound >= 1 /\ ev.op.saved = ev.op.nfound)
          => HistoryCount(ev.op.sid) >= ev.op.h0 + ev.op.nfound

C4_Witness ==
  /\ ev.done /\ ev.op.api = "destroy" /\ ev.op.l0 /\ ev.called /\ ~ev.err
  /\ ev.op.nfound >= 1 /\ ev.op.saved = ev.op.nfound
  /\ LiveOf(ev.op.sid) = {}
  /\ HistoryCount(ev.op.sid) >= ev.op.h0 + 1

\* C5: clear calls back without an error, also when the lookup or a save of
\* its history step failed, and, its drop done, the live collection is empty.
C5_ClearEmptiesWithoutError ==
  (ev.done /\ ev.op.api = "clear")
  => /\ ev.called /\ ~ev.err
     /\ ~ev.fail => live = {}

\* A clear that found live records, failed to save a clone of one, and
\* emptied the collection.
C5_Witness ==
  /\ ev.done /\ ev.op.api = "clear" /\ ev.called /\ ~ev.err /\ ~ev.fail
  /\ ev.op.nfound >= 1 /\ ev.op.saved < ev.op.nfound
  /\ live = {}

\* C6: a set whose payload's cookie has an original max-age below the
\* configured max-age ends in its synchronous part with an error for the
\* caller; no live record is inserted or updated and no lookup, save or sweep
\* is started.
C6_MaxAgeTooLargeAborts ==
  [][ (ev'.done /\ ev'.op.kind = "set" /\ ev'.op.payload.cform # "absent"
        /\ maxAge > ev'.op.payload.oma)
      => /\ ev'.op.pc = "config"
         /\ HasNext(ev'.op) => ev'.called /\ ev'.err
         /\ live' = live /\ history' = history
         /\ ops' \subseteq ops ]_vars

C6_Witness ==
  /\ ev.done /\ ev.op.kind = "set" /\ ev.op.pc = "config"
  /\ maxAge > ev.op.payload.oma /\ ev.called /\ ev.err
  /\ live # {}

\* C7: a set that finds a live record for its id and whose payload has
\* forceUpdate unset or false leaves every stored payload as it was; its save
\* sets the record's expires to the time of the call plus max-age and its
\* lastAccessTime to the time its lookup completed, within the call.
C7_NoForceKeepsPayloadRefreshesTimes ==
  [][ (ev'.done /\ ev'.op.kind = "set" /\ ev'.op.pc = "saveStored" /\ ~ev'.fail
        /\ ev'.op.payload.force # "true")
      => \A d \in live :
           \E e \in live' :
             /\ e.id = d.id /\ e.sid = d.sid /\ e.session = d.session
             /\ d.id = ev'.op.doc
                  => /\ e.expires = ev'.op.t0 + maxAge
                     /\ e.lastAccessTime >= ev'.op.t0
                     /\ e.lastAccessTime <= now ]_vars

\* The second set of an id, with another payload and no forceUpdate, after the
\* clock has moved: the record keeps the first payload and has the new times.
C7_Witness ==
  /\ ev.done /\ ev.op.api = "set" /\ ev.op.pc = "saveStored" /\ ~ev.fail
  /\ ev.op.payload.force # "true"
  /\ ev.op.t0 >= 1
  /\ \E d \in live :
       /\ d.id = ev.op.doc /\ d.session # ev.op.s
       /\ d.expires = ev.op.t0 + maxAge /\ d.lastAccessTime >= ev.op.t0

C9_StorageFailureReachesCaller ==
  (ev.done /\ ev.called /\ ev.fail
     /\ ev.op.pc \in {"findOne", "saveStored", "saveNew", "remove", "count"})
  => ev.err

\* C10: an exception raised synchronously in set (reading the max-age of a
\* cookie the payload does not have) or in get's callback (writing the user
\* into a session stored as a string) is caught and handed to the caller's
\* callback as its error argument; nothing is persisted and nothing is started.
C10_ExceptionsAreDelivered ==
  [][ /\ (ev'.done /\ ev'.op.kind = "set" /\ ev'.op.payload.cform = "absent")
         => /\ ev'.op.pc = "exception"
            /\ HasNext(ev'.op) => ev'.called /\ ev'.err
            /\ live' = live /\ history' = history /\ ops' \subseteq ops
      /\ (ev'.done /\ ev'.op.kind = "get" /\ ev'.op.seen # NoDoc
            /\ ev'.op.seen.session.str /\ ev'.op.tSeen < ev'.op.seen.expires)
         => /\ ev'.op.pc = "exception"
            /\ HasNext(ev'.op) => ev'.called /\ ev'.err /\ ev'.res = NoPayload
            /\ live' = live /\ history' = history /\ ops' \subseteq ops ]_vars

\* A set of a payload with no cookie, over a live collection that holds
\* records, handed its exception.
C10_Witness ==
  /\ ev.done /\ ev.op.api = "set" /\ ev.op.pc = "exception"
  /\ ev.op.payload.cform = "absent" /\ ev.called /\ ev.err
  /\ live # {}

\* C11: a history save that fails neither fails the operation it archives for
\* nor stops the other clones.  Each completion of a clone's save, failed or
\* not, takes one clone off the outstanding ones, leaves the live collection
\* alone and calls nobody back; the other clones stay outstanding; after the
\* last one the operation goes on to its removal (destroy's remove, clear's
\* drop, the sweep's removes).  A destroy or clear some of whose clones failed
\* calls back as one whose clones were all saved: destroy with the error of its
\* remove only, clear with none, the records removed.
C11_HistorySaveFailureIsSuppressed ==
  [][ /\ \A o \in ops :
           (o.pc = "archive" /\ o \notin ops')
           => \E d \in o.pending, o1 \in ops' :
                /\ o1.id = o.id /\ o1.kind = o.kind
                /\ o1.pending = o.pending \ {d}
                /\ \/ history' = history
                   \/ history' = history (+) SetToBag({HistoryOf(d)})
                /\ o1.pc = IF o1.pending # {} THEN "archive"
                           ELSE CASE o.kind = "destroy" -> "remove"
                                  [] o.kind = "clear"   -> "drop"
                                  [] OTHER              -> "removeEach"
                /\ live' = live
                /\ ~ev'.done
      /\ (ev'.done /\ ev'.op.kind \in {"destroy", "clear"}
            /\ ev'.op.saved < ev'.op.nfound)
           => /\ ev'.called = HasNext(ev'.op)
              /\ ev'.err = (ev'.op.kind = "destroy" /\ ev'.fail)
              /\ ~ev'.fail
                   => IF ev'.op.kind = "destroy"
                        THEN {d \in live' : d.sid = ev'.op.sid} = {}
                        ELSE live' = {} ]_vars

\* A sweep that found two expired records, failed to save the clone of one,
\* saved the clone of the other and removed both.
C11_Witness ==
  /\ ev.done /\ ev.op.kind = "sweep" /\ ~ev.op.failed
  /\ ev.op.nfound = 2 /\ ev.op.saved = 1
  /\ \A d \in ev.op.found : d.id \notin {e.id : e \in live}
  /\ \E d \in ev.op.found : BagIn(HistoryOf(d), history)

\* C12: in every reachable state the live collection holds at most one record
\* per session id.
C12_AtMostOneLivePerSid ==
  \A d, e \in live : d.sid = e.sid => d.id = e.id

\* The history holds a record with the session id and the payload of d.
Archived(d, h) ==
  \E r \in BagToSet(h) : r.sid = d.sid /\ r.session = d.session

\* The live records a step removes.
Removed == {d \in live : d.id \notin {e.id : e \in live'}}

C14_GetAndResetRefreshes ==
  [][ /\ \A o \in ops :
           (o.api = "getAndReset" /\ o.kind = "get" /\ o \notin ops')
           => /\ live' = live
              /\ \/ \E o1 \in ops' :
                      /\ o1.id = o.id /\ o1.kind = "set" /\ o1.pc = "findOne"
                      /\ o1.sid = o.sid
                      /\ o1.seen \in LiveOf(o.sid) /\ now < o1.seen.expires
                      /\ o1.payload.data = o1.seen.session.data
                      /\ o1.payload.sidf = o.sid
                      /\ o1.t0 = now /\ o1.expires = now + maxAge
                 \/ \E o1 \in ops' :
                      /\ o1.id = o.id /\ o1.kind = "destroy"
                      /\ o1.seen \in LiveOf(o.sid) /\ now >= o1.seen.expires
                 \/ /\ ev'.done /\ ev'.op.id = o.id
                    /\ \A o1 \in ops' : o1.id # o.id
                    /\ \/ ev'.fail
                       \/ LiveOf(o.sid) = {}
                       \/ ev'.op.seen \in LiveOf(o.sid) /\ ev'.op.seen.session.str
      /\ (ev'.done /\ ev'.op.api = "getAndReset" /\ ev'.op.kind = "set" /\ ~ev'.fail)
           => IF ev'.op.pc = "saveStored"
                THEN \A e \in live' :
                       e.id = ev'.op.doc
                       => /\ e.expires = ev'.op.t0 + maxAge
                          /\ e.lastAccessTime >= ev'.op.t0
                ELSE \E e \in live' :
                       /\ e.id \notin {d.id : d \in live}
                       /\ e.sid = ev'.op.sid /\ e.expires = ev'.op.t0 + maxAge
      /\ \A o \in ops :
           (o.api = "getAndReset" /\ o.kind = "destroy" /\ o \notin ops')
           => {e.id : e \in live'} \subseteq {d.id : d \in live} ]_vars

\* A getAndReset that found a record and set it again: the record has the
\* expires of that set and a later lastAccessTime than it had.
C14_Witness ==
  /\ ev.done /\ ev.op.api = "getAndReset" /\ ev.op.kind = "set"
  /\ ev.op.pc = "saveStored" /\ ~ev.fail
  /\ \E e \in live :
       /\ e.id = ev.op.doc /\ e.id = ev.op.seen.id
       /\ e.expires = ev.op.t0 + maxAge
       /\ e.lastAccessTime >= ev.op.t0
       /\ e.lastAccessTime > ev.op.seen.lastAccessTime

\* C15: in destroy, clear and the sweep the removal comes after the join of
\* the history saves.  While an operation archives, a save is outstanding for
\* some of the records it found and the saves that have called back are the
\* others; a step of an operation with a save outstanding removes no live
\* record; the step of such an operation that removes live records is its
\* remove, its drop or one of its sweep removes, with no save outstanding.
C15_DeletionAfterJoin ==
  [][ \A o \in ops :
        (o.kind \in {"destroy", "clear", "sweep"} /\ o \notin ops')
        => /\ o.pending \subseteq o.found
           /\ o.saved <= Cardinality(o.found) - Cardinality(o.pending)
           /\ o.pc = "archive" <=> o.pending # {}
           /\ o.pending # {} => live' = live
           /\ Removed # {}
                => /\ o.pending = {}
                   /\ o.pc = CASE o.kind = "destroy" -> "remove"
                               [] o.kind = "clear"   -> "drop"
                               [] OTHER              -> "removeEach" ]_vars

\* A clear that found live records, saved a clone of each, and then
\* emptied the collection.
C15_Witness ==
  /\ ev.done /\ ev.op.kind = "clear" /\ ~ev.fail
  /\ ev.op.nfound >= 1 /\ ev.op.saved = ev.op.nfound /\ ev.op.pending = {}
  /\ \A d \in ev.op.found : Archived(d, history)
  /\ live = {}

\* C16: every write of set, the insert of a new record and the update of the
\* record it found, with forceUpdate or without, in set called by the caller
\* or by getAndReset, leaves the record with expires = the time set was called
\* plus max-age, whatever the record's expires and lastAccessTime were and
\* however long the lookup and the save took.
C16_SetWritesExpiresFromCallTime ==
  [][ (ev'.done /\ ev'.op.kind = "set" /\ ~ev'.fail
        /\ ev'.op.pc \in {"saveStored", "saveNew"})
      => /\ ev'.op.t0 <= now
         /\ ev'.op.pc = "saveNew"
              => \E e \in live' :
                   /\ e.id \notin {d.id : d \in live}
                   /\ live' = live \cup {e}
                   /\ e.sid = ev'.op.sid
                   /\ e.expires = ev'.op.t0 + maxAge
         /\ ev'.op.pc = "saveStored"
              => \A d \in live :
                   \E e \in live' :
                     /\ e.id = d.id
                     /\ e.expires = IF d.id = ev'.op.doc
                                      THEN ev'.op.t0 + maxAge ELSE d.expires ]_vars

\* A set with forceUpdate, called after the clock has moved and saved later
\* still, which updated the record it found.
C16_Witness ==
  /\ ev.done /\ ev.op.kind = "set" /\ ~ev.fail /\ ev.op.pc = "saveStored"
  /\ ev.op.overwrite
  /\ ev.op.t0 >= 1 /\ ev.op.t0 < now
  /\ \E e \in live : e.id = ev.op.doc /\ e.expires = ev.op.t0 + maxAge

\* The step is the callback of the lookup of set o: it starts a sweep, whose
\* query takes the records that expire before now.
StartsSweep(o) ==
  \E w \in ops' \ ops :
    /\ w.kind = "sweep" /\ w.pc = "query" /\ w.cutoff = now
    /\ w.id = 0 - o.id

\* C17, as claimed: the callback of the lookup of every set that passed
\* validation starts a sweep, and set's own callback does not wait for it; a
\* sweep that is over at its query leaves no live record that expires before
\* its start; a sweep takes the records that expire before its start, removes
\* none but these, and when it is over each of them is removed and has its
\* history record.
C17_SweepRemovesAndArchivesExpired ==
  [][ /\ \A o \in ops :
           (o.kind = "set" /\ o.pc = "findOne" /\ o \notin ops')
           => /\ StartsSweep(o)
              /\ ev'.done \/ \E o1 \in ops' : o1.id = o.id /\ o1.kind = "set"
      /\ \A o \in ops :
           (o.kind = "sweep" /\ o \notin ops')
           => /\ {e.id : e \in live'} \subseteq {d.id : d \in live}
              /\ \A d \in live : d.id \in {e.id : e \in live'} => d \in live'
              /\ \A d \in Removed : d.id \in {f.id : f \in o.found}
              /\ o.pc = "query"
                   => /\ live' = live
                      /\ \A o1 \in ops' :
                           o1.id = o.id => o1.found = {d \in live : d.expires < o.cutoff}
                      /\ ev'.done => {d \in live' : d.expires < o.cutoff} = {}
      /\ (ev'.done /\ ev'.op.kind = "sweep")
           => \A d \in ev'.op.found :
                /\ d.id \notin {e.id : e \in live'}
                /\ Archived(d, history') ]_vars

\* C17, amended: as C17 while no storage call of the sweep fails.  A sweep
\* whose query failed is over with the expired records still live; a sweep is
\* over with each record it found removed when no remove of it failed, and
\* with a history record of each when no save of a clone failed.
C17_SweepRemovesAndArchivesUnlessStorageFails ==
  [][ /\ \A o \in ops :
           (o.kind = "set" /\ o.pc = "findOne" /\ o \notin ops')
           => /\ StartsSweep(o)
              /\ ev'.done \/ \E o1 \in ops' : o1.id = o.id /\ o1.kind = "set"
      /\ \A o \in ops :
           (o.kind = "sweep" /\ o \notin ops')
           => /\ {e.id : e \in live'} \subseteq {d.id : d \in live}
              /\ \A d \in live : d.id \in {e.id : e \in live'} => d \in live'
              /\ \A d \in Removed : d.id \in {f.id : f \in o.found}
              /\ o.pc = "query"
                   => /\ live' = live
                      /\ \A o1 \in ops' :
                           o1.id = o.id => o1.found = {d \in live : d.expires < o.cutoff}
                      /\ (ev'.done /\ ~ev'.fail)
                           => {d \in live' : d.expires < o.cutoff} = {}
      /\ (ev'.done /\ ev'.op.kind = "sweep")
           => \A d \in ev'.op.found :
                /\ ~ev'.op.failed => d.id \notin {e.id : e \in live'}
                /\ ev'.op.saved = ev'.op.nfound => Archived(d, history') ]_vars

\* A sweep, started by the set of another id, that found an expired record,
\* saved its clone and removed it, with the record of that set left live.
C17_Witness ==
  /\ ev.done /\ ev.op.kind = "sweep" /\ ~ev.op.failed
  /\ ev.op.nfound = 1 /\ ev.op.saved = 1
  /\ \A d \in ev.op.found :
       /\ d.expires < ev.op.cutoff
       /\ d.id \notin {e.id : e \in live}
       /\ Archived(d, history)
  /\ \E e \in live : e.expires >= ev.op.cutoff

\* C18: a sweep never deletes a live record whose expires is in the future at
\* the time of the deletion: a record that a set refreshed after the sweep's
\* query found it expired survives the sweep.
C18_SweepDeletesOnlyExpired ==
  [][ \A o \in ops :
        (o.kind = "sweep" /\ o \notin ops')
        => \A d \in Removed : ~(d.expires > now) ]_vars

\* C19: destroy, clear and the sweep delete no live record for which the
\* operation has not made an archival attempt: every record a step of such an
\* operation removes is one its archival query found, also when that query
\* failed or a set inserted the record after it.
C19_DeletesOnlyWhatItArchived ==
  [][ \A o \in ops :
        (o.kind \in {"destroy", "clear", "sweep"} /\ o \notin ops')
        => \A d \in Removed : d.id \in {f.id : f \in o.found} ]_vars

\* The caller's callback of call id runs in the step that led here.
CalledBack(id) == ev.done /\ ev.called /\ ev.op.id = id

\* C20: when every storage call completes, every call of get, set, destroy,
\* clear (and length) calls the caller's callback, once.  A call either is
\* over in its own step, with the callback (set's validation failure and
\* exception), or is in flight; a call in flight is called back in the step
\* in which it stops being in flight, never before and, its identity not
\* being used again, never after; and every call in flight is eventually
\* called back, whatever the lookup finds and whichever storage call fails.
C20_CallbackEventuallyOnce ==
  /\ [][ /\ calls' \in {calls, calls + 1}
         /\ \A o \in ops' :
              (o.id > 0 /\ o.id \notin {q.id : q \in ops})
              => calls' = calls + 1 /\ o.id = calls'
         /\ calls' = calls + 1
              => \/ \E o \in ops' : o.id = calls'
                 \/ ev'.done /\ ev'.called /\ ev'.op.id = calls'
         /\ \A o \in ops :
              (o.id > 0 /\ HasNext(o) /\ o.id \notin {q.id : q \in ops'})
              => ev'.done /\ ev'.called /\ ev'.op.id = o.id
         /\ (ev'.done /\ ev'.called)
              => /\ ev'.op.id \notin {q.id : q \in ops'}
                 /\ \/ ev'.op.id \in {q.id : q \in ops}
                    \/ calls' = calls + 1 /\ ev'.op.id = calls' ]_vars
  /\ \A id \in 1..MaxCalls :
       (\E o \in ops : o.id = id /\ HasNext(o)) ~> CalledBack(id)

\* A get that found an expired record, went on as a destroy that archived it,
\* and called back with the error of the remove that failed.
C20_Witness ==
  /\ CalledBack(ev.op.id)
  /\ ev.op.api = "get" /\ ev.op.kind = "destroy"
  /\ ev.op.nfound >= 1 /\ ev.op.saved = ev.op.nfound
  /\ ev.fail /\ ev.err
  /\ \A o \in ops : o.id # ev.op.id

\* C21: get changes persisted state only when the record is expired.  The
\* callback of get's lookup leaves the live and the history collection as
\* they are, every record with its payload, expires and lastAccessTime; when
\* the id has no live record, or the record found is not expired, the call
\* is over with that step; only when the record found is expired does the
\* call go on, as a destroy, and only the steps of that destroy change
\* either collection.
C21_GetWritesOnlyWhenExpired ==
  [][ \A o \in ops :
        (o.api = "get" /\ o \notin ops')
        => /\ o.kind = "get"
                => /\ live' = live /\ history' = history
                   /\ \A o1 \in ops' :
                        o1.id = o.id
                        => /\ o1.kind = "destroy"
                           /\ o1.seen \in LiveOf(o.sid)
                           /\ now >= o1.seen.expires
                   /\ (LiveOf(o.sid) = {} \/ \A d \in LiveOf(o.sid) : now < d.expires)
                        => /\ ev'.done /\ ev'.op.id = o.id
                           /\ \A o1 \in ops' : o1.id # o.id
           /\ (live' # live \/ history' # history)
                => /\ o.kind = "destroy"
                   /\ o.seen # NoDoc /\ o.tSeen >= o.seen.expires ]_vars

\* A get, made after the clock has moved, that returned the payload of a
\* record that is not expired: the record is live as get found it and the
\* history is empty.
C21_Witness ==
  /\ ev.done /\ ev.op.api = "get" /\ ev.op.kind = "get"
  /\ ev.called /\ ev.res # NoPayload
  /\ ev.op.t0 >= 1 /\ ev.op.tSeen < ev.op.seen.expires
  /\ ev.op.seen \in live
  /\ history = EmptyBag

\* C22: the history collection is append-only.  No step, of whatever
\* operation, takes a history record away or changes one: every record is
\* there after the step as many times as before, and a step adds at most one
\* record, the clone of a live record that an archiving operation found,
\* under an identity that the live collection has given to no record.
\* Nothing keeps the history from holding several records of one session id.
C22_HistoryAppendOnly ==
  /\ [][ /\ \A r \in BagToSet(history) : CopiesIn(r, history') >= CopiesIn(r, history)
         /\ BagCardinality(history') <= BagCardinality(history) + 1
         /\ \A r \in BagToSet(history') :
              CopiesIn(r, history') > CopiesIn(r, history)
              => \E o \in ops :
                   /\ o.pc = "archive" /\ o \notin ops'
                   /\ \E d \in o.pending :
                        r.sid = d.sid /\ r.session = d.session /\ r.id # d.id ]_vars
  /\ [](\A r \in BagToSet(history) : r.id \notin 1..(nextId - 1))

\* Two history records of one session id, of two live records that had
\* identities of their own, with neither left live.
C22_Witness ==
  \E sid \in Sids :
    /\ HistoryCount(sid) >= 2
    /\ nextId >= 3
    /\ LiveOf(sid) = {}
    /\ \A r \in BagToSet(history) : r.id \notin 1..(nextId - 1)

====
